---- MODULE Spec2Model ----
(***************************************************************************)
(* The RFKC applicant-tracking application: the pipeline and form routers  *)
(* of the API server over the relational tables, and the pipeline slice of *)
(* the client store.                                                       *)
(***************************************************************************)
EXTENDS Integers, Sequences, FiniteSets, TLC

VARIABLES
    db,         \* the database: the tables and their id sequences
    req,        \* the last HTTP request the server received
    res,        \* the response to it: status, answering handler, body, query outcome
    before,     \* the database as it was before the last request or write
    store,      \* the client store: the state of the pipeline slice
    calls,      \* the calls of the slice's async actions, in the order they were made
    settled,    \* the call whose continuation ran in the last step, and what it found
    lastSettled, \* per state field, the call that last set it
    page,       \* the FormPage component: the route's formId and the store's user
    subCalls,   \* the calls of createOrGetSubmissionByFormId, in the order made
    account,    \* a password, its stored digest, and the last candidate compared to it
    modal,      \* the AddUserToPipeline component: found users, last render or click
    formRoute   \* the URL FormPage is shown at, and the redirects since it was opened

server == <<db, req, res, before>>
client == <<store, calls, settled, lastSettled>>
formPage == <<page, subCalls>>
others == <<account, modal, formRoute>>
vars == <<db, req, res, before, store, calls, settled, lastSettled, page, subCalls,
          account, modal, formRoute>>

---------------------------------------------------------------------------
\* Bounds of the model.
MaxPipelineId == 1
MaxStatusId == 2
MaxUserStatusId == 2
MaxFormId == 3
MaxUser == 2
MaxOrder == 2
MaxCalls == 3
MaxSubmissionCalls == 3
MaxSectionId == 2
MaxQuestionId == 2
MaxAnswerId == 1
MaxPasswordLen == 2
MaxSalt == 2
MaxSelections == 1
MaxIndexLen == 3

\* JavaScript undefined / SQL NULL, for numbers and for strings.
NULL == 0
Undefined == "undefined"

Names == {"a", "b"}
StatusNames == {"applied"}
Users == 1..MaxUser
Orders == 1..MaxOrder

\* The decimal text of an id, as it travels in a URL path.
IdStr == <<"1", "2", "3", "4", "5", "6">>
UserNames == <<"u1", "u2", "u3", "u4">>

IsIntText(s) == \E i \in DOMAIN IdStr : IdStr[i] = s
ParseId(s) == CHOOSE i \in DOMAIN IdStr : IdStr[i] = s

Min(S) == CHOOSE x \in S : \A y \in S : x <= y

\* Every order in which the rows of S can come back from a query.
Orderings(S) ==
    {o \in [1..Cardinality(S) -> S] : \A i, j \in 1..Cardinality(S) : i # j => o[i] # o[j]}

---------------------------------------------------------------------------
\* The schema.

\* pipeline.name is a required column.
PipelineNameRequired == TRUE
\* The columns of user_status that a statement may name.
UserStatusColumns == {"id", "user_id", "pipeline_status_id", "p_s_id"}
\* The "user" table; neither router writes it.
UserRows == {[id |-> u, username |-> UserNames[u]] : u \in Users}

EmptyDb ==
    [pipeline |-> {}, pipeline_status |-> {}, user_status |-> {}, forms |-> {},
     submission |-> {}, sections |-> {}, question |-> {}, multiple_choice_answers |-> {},
     seq |-> [pipeline |-> 1, pipeline_status |-> 1, user_status |-> 1, forms |-> 1,
              submission |-> 1, sections |-> 1, question |-> 1,
              multiple_choice_answers |-> 1]]

\* The result of a statement: it ran (ok) and left the database db, or it raised.
Ran(d) == [ok |-> TRUE, db |-> d]
Raised(d) == [ok |-> FALSE, db |-> d]

\* ON DELETE CASCADE from pipeline to pipeline_status to user_status.
CascadeStatuses(d) ==
    LET live == {s \in d.pipeline_status :
                    \E p \in d.pipeline : p.id = s.pipeline_id}
    IN [d EXCEPT !.pipeline_status = live]
CascadeUserStatuses(d) ==
    LET live == {u \in d.user_status :
                    u.pipeline_status_id = NULL
                    \/ \E s \in d.pipeline_status : s.id = u.pipeline_status_id}
    IN [d EXCEPT !.user_status = live]

---------------------------------------------------------------------------
\* Requests and responses.

NoBody ==
    [name |-> Undefined, order |-> NULL, pipeline_id |-> NULL, user_id |-> NULL,
     p_s_id |-> NULL, pipeline_status_id |-> NULL]

Request(mount, method, path, body, auth) ==
    [mount |-> mount, method |-> method, path |-> path, body |-> body,
     auth |-> auth, params |-> <<>>]

NoRequest == Request("none", "none", <<>>, NoBody, FALSE)

\* query: what became of the handler's query: it "ran", it "failed" (the pool's
\* promise rejected), or there was "none" because no handler ran.
Reply(status, by, body, d) ==
    [status |-> status, by |-> by, body |-> body, db |-> d, query |-> "ran"]

\* The answer of a handler's .catch(...).
Failure(status, by, d) == [Reply(status, by, <<>>, d) EXCEPT !.query = "failed"]

NoResponse == [status |-> 0, by |-> "none", body |-> <<>>, query |-> "none"]

---------------------------------------------------------------------------
\* The SQL statements of the pipeline router, run against the tables.

StatusById(d, id) == CHOOSE s \in d.pipeline_status : s.id = id
PipelineById(d, id) == CHOOSE p \in d.pipeline : p.id = id
HasStatus(d, id) == \E s \in d.pipeline_status : s.id = id
HasPipeline(d, id) == \E p \in d.pipeline : p.id = id

\* SELECT "name" FROM "pipeline": the rows, in any order.
SelectPipelineNames(d) ==
    {[i \in DOMAIN o |-> [name |-> o[i].name]] : o \in Orderings(d.pipeline)}

\* The user_status rows that survive the three JOINs and the WHERE pipeline.id = $1.
DetailJoin(d, pipelineId) ==
    {u \in d.user_status :
        /\ HasStatus(d, u.pipeline_status_id)
        /\ HasPipeline(d, StatusById(d, u.pipeline_status_id).pipeline_id)
        /\ StatusById(d, u.pipeline_status_id).pipeline_id = pipelineId
        /\ \E usr \in UserRows : usr.id = u.user_id}

DetailRow(d, u) ==
    LET s == StatusById(d, u.pipeline_status_id)
        usr == CHOOSE x \in UserRows : x.id = u.user_id
    IN [pipeline_name |-> PipelineById(d, s.pipeline_id).name,
        pipeline_status_id |-> s.id,
        pipeline_status_name |-> s.name,
        order |-> s.order,
        user_id |-> usr.id,
        username |-> usr.username]

\* No ORDER BY: the rows come in any order.
AnyRowOrder(d, o) == TRUE

\* ORDER BY pipeline_status.order: rows of equal order come in any order.
OrderedByStatusOrder(d, o) ==
    \A i, j \in DOMAIN o :
        i < j => StatusById(d, o[i].pipeline_status_id).order
                    <= StatusById(d, o[j].pipeline_status_id).order

SelectPipelineDetail(d, pipelineId) ==
    {[i \in DOMAIN o |-> DetailRow(d, o[i])] :
        o \in {x \in Orderings(DetailJoin(d, pipelineId)) : OrderedByStatusOrder(d, x)}}

\* INSERT INTO "pipeline" ("name") VALUES ($1)
InsertPipeline(d, name) ==
    IF PipelineNameRequired /\ name = Undefined
    THEN Raised(d)
    ELSE Ran([d EXCEPT !.pipeline = @ \cup {[id |-> d.seq.pipeline, name |-> name]},
                       !.seq.pipeline = @ + 1])

\* DELETE FROM "pipeline" WHERE id=$1
DeleteFromPipeline(d, idText) ==
    IF ~IsIntText(idText)
    THEN Raised(d)
    ELSE Ran(CascadeUserStatuses(CascadeStatuses(
            [d EXCEPT !.pipeline = {p \in @ : p.id # ParseId(idText)}])))

\* UPDATE "pipeline" SET "name"=$1 WHERE "id"= $2
UpdatePipelineName(d, name, idText) ==
    IF ~IsIntText(idText)
    THEN Raised(d)
    ELSE IF PipelineNameRequired /\ name = Undefined /\ HasPipeline(d, ParseId(idText))
    THEN Raised(d)
    ELSE Ran([d EXCEPT !.pipeline =
                {IF p.id = ParseId(idText) THEN [p EXCEPT !.name = name] ELSE p : p \in @}])

\* INSERT INTO "pipeline_status" ("pipeline_id", "order", "name") VALUES ($1, $2, $3)
InsertPipelineStatus(d, pipelineId, order, name) ==
    IF pipelineId # NULL /\ ~HasPipeline(d, pipelineId)
    THEN Raised(d)
    ELSE Ran([d EXCEPT !.pipeline_status = @ \cup
                    {[id |-> d.seq.pipeline_status, pipeline_id |-> pipelineId,
                      order |-> order, name |-> name]},
                       !.seq.pipeline_status = @ + 1])

\* The delete removes the status row only: its user_status rows stay.
DeleteFromPipelineStatusLeavesRows(d, idText) ==
    IF ~IsIntText(idText)
    THEN Raised(d)
    ELSE Ran([d EXCEPT !.pipeline_status = {s \in @ : s.id # ParseId(idText)}])

\* DELETE FROM "pipeline_status" WHERE id=$1
DeleteFromPipelineStatus(d, idText) ==
    IF ~IsIntText(idText)
    THEN Raised(d)
    ELSE Ran(CascadeUserStatuses(
            [d EXCEPT !.pipeline_status = {s \in @ : s.id # ParseId(idText)}]))

\* UPDATE "pipeline_status" SET "order"=$1, "name"=$2 WHERE "id"= $3
UpdatePipelineStatus(d, p1, p2, p3) ==
    IF ~IsIntText(p1) \/ ~IsIntText(p3)
    THEN Raised(d)
    ELSE Ran([d EXCEPT !.pipeline_status =
                {IF s.id = ParseId(p3)
                    THEN [s EXCEPT !.order = ParseId(p1), !.name = p2]
                    ELSE s : s \in @}])

\* INSERT INTO "user_status" ("user_id", "p_s_id") VALUES ($1, $2)
InsertUserStatus(d, userId, statusId) ==
    IF \/ ~({"user_id", "p_s_id"} \subseteq UserStatusColumns)
       \/ (userId # NULL /\ userId \notin Users)
       \/ (statusId # NULL /\ ~HasStatus(d, statusId))
    THEN Raised(d)
    ELSE Ran([d EXCEPT !.user_status = @ \cup
                    {[id |-> d.seq.user_status, user_id |-> userId,
                      pipeline_status_id |-> statusId]},
                       !.seq.user_status = @ + 1])

\* UPDATE "user_status" SET "pipeline_status_id" = $1 WHERE "user_id" = $2
UpdateUserStatus(d, statusId, userText) ==
    IF \/ ~({"user_id", "pipeline_status_id"} \subseteq UserStatusColumns)
       \/ ~IsIntText(userText)
    THEN Raised(d)
    ELSE IF /\ \E u \in d.user_status : u.user_id = ParseId(userText)
            /\ statusId # NULL
            /\ ~HasStatus(d, statusId)
    THEN Raised(d)
    ELSE Ran([d EXCEPT !.user_status =
                {IF u.user_id = ParseId(userText)
                    THEN [u EXCEPT !.pipeline_status_id = statusId]
                    ELSE u : u \in @}])

\* DELETE FROM "user_status" WHERE "user_id" = $1 and "pipeline_id" = $2
DeleteFromUserStatus(d, userId, pipelineId) ==
    IF ~({"user_id", "pipeline_id"} \subseteq UserStatusColumns)
    THEN Raised(d)
    ELSE Ran([d EXCEPT !.user_status =
                {u \in @ : ~(u.user_id = userId /\ u.pipeline_id = pipelineId)}])

---------------------------------------------------------------------------
\* The handlers of the pipeline router. Each gives the set of its possible
\* outcomes: the pool's query can reject whatever the statement is.

\* .then(...) answers `done` with the rows, .catch(...) answers `failed`.
Outcomes(r, done, failed, by, d) ==
    (IF r.ok THEN {Reply(done, by, <<>>, r.db)} ELSE {})
        \cup {Failure(failed, by, d)}

GetPipelines(d, rq) ==
    {Reply(200, "GetPipelines", rows, d) : rows \in SelectPipelineNames(d)}
        \cup {Failure(500, "GetPipelines", d)}

GetPipelineById(d, rq) ==
    (IF IsIntText(rq.params.pipelineId)
        THEN {Reply(200, "GetPipelineById", rows, d) :
                rows \in SelectPipelineDetail(d, ParseId(rq.params.pipelineId))}
        ELSE {})
        \cup {Failure(500, "GetPipelineById", d)}

\* The catch answers 500, as the other handlers' do.
PostPipelineAnswers500(d, rq) ==
    Outcomes(InsertPipeline(d, rq.body.name), 201, 500, "PostPipeline", d)

PostPipeline(d, rq) ==
    Outcomes(InsertPipeline(d, rq.body.name), 201, 400, "PostPipeline", d)

\* An id that matches no row is answered 404.
DeletePipelineAnswers404(d, rq) ==
    IF IsIntText(rq.params.id) /\ ~HasPipeline(d, ParseId(rq.params.id))
    THEN {Reply(404, "DeletePipeline", <<>>, d)}
    ELSE Outcomes(DeleteFromPipeline(d, rq.params.id), 204, 500, "DeletePipeline", d)

DeletePipeline(d, rq) ==
    Outcomes(DeleteFromPipeline(d, rq.params.id), 204, 500, "DeletePipeline", d)

PutPipeline(d, rq) ==
    Outcomes(UpdatePipelineName(d, rq.body.name, rq.params.id), 200, 500, "PutPipeline", d)

PostStatus(d, rq) ==
    Outcomes(InsertPipelineStatus(d, rq.body.pipeline_id, rq.body.order, rq.body.name),
             201, 500, "PostStatus", d)

DeletePipelineStatus(d, rq) ==
    Outcomes(DeleteFromPipelineStatus(d, rq.params.id), 204, 500, "DeletePipelineStatus", d)

\* The parameters are bound in the order [id, order, name].
PutPipelineStatus(d, rq) ==
    LET pipelineStatusId == rq.params.id
        pipelineStatusOrder == IF rq.body.order = NULL THEN Undefined ELSE IdStr[rq.body.order]
        pipelineStatusName == rq.body.name
    IN Outcomes(UpdatePipelineStatus(d, pipelineStatusId, pipelineStatusOrder, pipelineStatusName),
                200, 500, "PutPipelineStatus", d)

PostUserStatus(d, rq) ==
    Outcomes(InsertUserStatus(d, rq.body.user_id, rq.body.p_s_id),
             201, 500, "PostUserStatus", d)

PutUserStatus(d, rq) ==
    Outcomes(UpdateUserStatus(d, rq.body.pipeline_status_id, rq.params.userId),
             200, 500, "PutUserStatus", d)

PutUserStatusRemove(d, rq) ==
    Outcomes(DeleteFromUserStatus(d, rq.body.user_id, rq.body.pipeline_id),
             204, 500, "PutUserStatusRemove", d)

---------------------------------------------------------------------------
\* The form router.

SelectForms(d) == Orderings(d.forms)

\* insert into forms("name") values($1)
InsertForm(d, name) ==
    Ran([d EXCEPT !.forms = @ \cup {[id |-> d.seq.forms, name |-> name]},
                  !.seq.forms = @ + 1])

GetForms(d, rq) ==
    {Reply(200, "GetForms", rows, d) : rows \in SelectForms(d)}
        \cup {Failure(500, "GetForms", d)}

\* json_agg(...): an array of the objects, or NULL when there is no row to aggregate.
JsonAgg(objs) == [null |-> objs = <<>>, items |-> objs]

\* Every array that takes, in some order of the rows, one object for each row.
Aggregates(rows, objsOf) ==
    {JsonAgg(f) : f \in UNION {
        {g \in [DOMAIN o -> UNION {objsOf[r] : r \in rows}] :
            \A i \in DOMAIN o : g[i] \in objsOf[o[i]]} : o \in Orderings(rows)}}

\* from multiple_choice_answers where multiple_choice_answers.question_id = question.id
AnswersOfQuestion(d, questionId) ==
    {a \in d.multiple_choice_answers : a.question_id = questionId}

MCAnswerObject(a) == {[type |-> "MCAnswer", id |-> a.id, answer |-> a.answer]}

\* The filter on archived is left out.
QuestionsOfSectionWithArchived(d, sectionId) ==
    {q \in d.question : q.section_id = sectionId}

\* from question where question.section_id = sections.id and question.archived = false
QuestionsOfSection(d, sectionId) ==
    {q \in d.question : q.section_id = sectionId /\ q.archived = FALSE}

QuestionObjects(d, q) ==
    {[type |-> "Question", question |-> q.question, description |-> q.description,
      order |-> q.order, answer_type |-> q.answer_type,
      multiple_choice_answers |-> answers] :
        answers \in Aggregates(AnswersOfQuestion(d, q.id),
                                [a \in AnswersOfQuestion(d, q.id) |-> MCAnswerObject(a)])}

\* from sections where sections.form_id = forms.id
SectionsOfForm(d, formId) == {x \in d.sections : x.form_id = formId}

SectionObjects(d, x) ==
    LET QuestionObjectsOf == [q \in QuestionsOfSection(d, x.id) |-> QuestionObjects(d, q)]
    IN {[type |-> "Section", id |-> x.id, order |-> x.order, name |-> x.name,
         description |-> x.description, questions |-> questions] :
            questions \in Aggregates(QuestionsOfSection(d, x.id), QuestionObjectsOf)}

\* The nested document of each form with id $1: the rows of the query.
SelectFormAll(d, formId) ==
    LET SectionObjectsOf == [x \in d.sections |-> SectionObjects(d, x)]
    IN UNION {
        {[type |-> "Form", id |-> f.id, name |-> f.name, sections |-> sections] :
            sections \in Aggregates(SectionsOfForm(d, f.id), SectionObjectsOf)} :
                f \in {x \in d.forms : x.id = formId}}

\* res.send(response.rows[0]): the document, or an empty body when no form has the id.
GetFormAll(d, rq) ==
    (IF ~IsIntText(rq.params.formId)
        THEN {}
        ELSE IF SelectFormAll(d, ParseId(rq.params.formId)) = {}
        THEN {Reply(200, "GetFormAll", <<>>, d)}
        ELSE {Reply(200, "GetFormAll", doc, d) :
                doc \in SelectFormAll(d, ParseId(rq.params.formId))})
        \cup {Failure(500, "GetFormAll", d)}

PostForm(d, rq) ==
    Outcomes(InsertForm(d, rq.body.name), 200, 500, "PostForm", d)

---------------------------------------------------------------------------
\* Routing: express tries the routes of a router in the order they were
\* registered and runs the first whose method and path match.

Lit(s) == [kind |-> "lit", v |-> s]
Par(s) == [kind |-> "param", v |-> s]

\* rooted: the path string of the route begins with "/".
RouteOf(method, rooted, pattern, auth, handler) ==
    [method |-> method, rooted |-> rooted, pattern |-> pattern, auth |-> auth,
     handler |-> handler]

PipelineRoutes ==
    << RouteOf("GET", TRUE, <<>>, FALSE, "GetPipelines"),
       RouteOf("GET", TRUE, <<Par("pipelineId")>>, FALSE, "GetPipelineById"),
       RouteOf("POST", TRUE, <<>>, TRUE, "PostPipeline"),
       RouteOf("DELETE", TRUE, <<Par("id")>>, TRUE, "DeletePipeline"),
       RouteOf("PUT", TRUE, <<Par("id")>>, TRUE, "PutPipeline"),
       RouteOf("POST", TRUE, <<Lit("status")>>, TRUE, "PostStatus"),
       RouteOf("DELETE", TRUE, <<Lit("pipeline_status"), Par("id")>>, TRUE, "DeletePipelineStatus"),
       RouteOf("PUT", FALSE, <<Lit("pipeline_status"), Par("id")>>, TRUE, "PutPipelineStatus"),
       RouteOf("POST", TRUE, <<Lit("user_status")>>, TRUE, "PostUserStatus"),
       RouteOf("PUT", TRUE, <<Lit("user_status"), Par("userId")>>, TRUE, "PutUserStatus"),
       RouteOf("PUT", TRUE, <<Lit("user_status"), Lit("remove")>>, TRUE, "PutUserStatusRemove") >>

FormRoutes ==
    << RouteOf("GET", TRUE, <<>>, FALSE, "GetForms"),
       RouteOf("GET", TRUE, <<Par("formId"), Lit("all")>>, FALSE, "GetFormAll"),
       RouteOf("POST", TRUE, <<>>, FALSE, "PostForm") >>

\* A request path always begins with "/", so a route whose path does not never matches.
Matches(route, rq) ==
    /\ route.method = rq.method
    /\ route.rooted
    /\ Len(route.pattern) = Len(rq.path)
    /\ \A i \in DOMAIN route.pattern :
            route.pattern[i].kind = "param" \/ route.pattern[i].v = rq.path[i]

Params(route, rq) ==
    LET at == {i \in DOMAIN route.pattern : route.pattern[i].kind = "param"}
    IN [n \in {route.pattern[i].v : i \in at} |->
            rq.path[CHOOSE i \in at : route.pattern[i].v = n]]

Handle(handler, d, rq) ==
    CASE handler = "GetPipelines" -> GetPipelines(d, rq)
      [] handler = "GetPipelineById" -> GetPipelineById(d, rq)
      [] handler = "PostPipeline" -> PostPipeline(d, rq)
      [] handler = "DeletePipeline" -> DeletePipeline(d, rq)
      [] handler = "PutPipeline" -> PutPipeline(d, rq)
      [] handler = "PostStatus" -> PostStatus(d, rq)
      [] handler = "DeletePipelineStatus" -> DeletePipelineStatus(d, rq)
      [] handler = "PutPipelineStatus" -> PutPipelineStatus(d, rq)
      [] handler = "PostUserStatus" -> PostUserStatus(d, rq)
      [] handler = "PutUserStatus" -> PutUserStatus(d, rq)
      [] handler = "PutUserStatusRemove" -> PutUserStatusRemove(d, rq)
      [] handler = "GetForms" -> GetForms(d, rq)
      [] handler = "GetFormAll" -> GetFormAll(d, rq)
      [] handler = "PostForm" -> PostForm(d, rq)

\* The session middleware ahead of a protected handler.
RejectUnauthenticated(d, rq) ==
    {[Reply(403, "rejectUnauthenticated", <<>>, d) EXCEPT !.query = "none"]}

\* No route matched.
NotFound(d, rq) == {[Reply(404, "none", <<>>, d) EXCEPT !.query = "none"]}

RoutesOf(mount) == IF mount = "form" THEN FormRoutes ELSE PipelineRoutes

\* The possible outcomes of a request.
Serve(d, rq) ==
    LET routes == RoutesOf(rq.mount)
        hits == {i \in DOMAIN routes : Matches(routes[i], rq)}
    IN IF hits = {}
       THEN NotFound(d, rq)
       ELSE LET route == routes[Min(hits)]
            IN IF route.auth /\ ~rq.auth
               THEN RejectUnauthenticated(d, rq)
               ELSE Handle(route.handler, d, [rq EXCEPT !.params = Params(route, rq)])

---------------------------------------------------------------------------
\* The API operations: a client sends one request and the server answers it.

Send(rq) ==
    \E out \in Serve(db, rq) :
        /\ db' = out.db
        /\ req' = rq
        /\ res' = [status |-> out.status, by |-> out.by, body |-> out.body,
                   query |-> out.query]
        /\ before' = db
        /\ UNCHANGED <<client, formPage, others>>

\* The ids a request can name: those the tables can hold and one they never hold.
PipelineIds == 1..(MaxPipelineId + 1)
StatusIds == 1..MaxStatusId

ListPipelines ==
    \E auth \in BOOLEAN :
        Send(Request("pipeline", "GET", <<>>, NoBody, auth))

GetPipelineDetail ==
    \E id \in PipelineIds, auth \in BOOLEAN :
        Send(Request("pipeline", "GET", <<IdStr[id]>>, NoBody, auth))

CreatePipeline ==
    \E name \in Names \cup {Undefined}, auth \in BOOLEAN :
        /\ name # Undefined => db.seq.pipeline <= MaxPipelineId
        /\ Send(Request("pipeline", "POST", <<>>, [NoBody EXCEPT !.name = name], auth))

DeletePipelineOp ==
    \E id \in PipelineIds, auth \in BOOLEAN :
        Send(Request("pipeline", "DELETE", <<IdStr[id]>>, NoBody, auth))

RenamePipeline ==
    \E id \in PipelineIds, name \in Names, auth \in BOOLEAN :
        Send(Request("pipeline", "PUT", <<IdStr[id]>>, [NoBody EXCEPT !.name = name], auth))

CreateStatus ==
    /\ db.seq.pipeline_status <= MaxStatusId
    /\ \E pid \in PipelineIds, order \in Orders, name \in StatusNames, auth \in BOOLEAN :
        Send(Request("pipeline", "POST", <<"status">>,
                     [NoBody EXCEPT !.pipeline_id = pid, !.order = order, !.name = name], auth))

DeleteStatus ==
    \E id \in StatusIds, auth \in BOOLEAN :
        Send(Request("pipeline", "DELETE", <<"pipeline_status", IdStr[id]>>, NoBody, auth))

UpdateStatus ==
    \E id \in StatusIds, order \in Orders, name \in Names, auth \in BOOLEAN :
        Send(Request("pipeline", "PUT", <<"pipeline_status", IdStr[id]>>,
                     [NoBody EXCEPT !.order = order, !.name = name], auth))

\* The body the API documents, {user_id, p_s_id}.
DocumentedUserStatus(user, status) ==
    [NoBody EXCEPT !.user_id = user, !.p_s_id = status]

\* The body the AddUserToPipeline component builds.
NewUserStatus(pipelineId, user, initialPipelineStatusId) ==
    [NoBody EXCEPT !.pipeline_id = pipelineId, !.user_id = user,
                   !.pipeline_status_id = initialPipelineStatusId]

AssignUser ==
    /\ db.seq.user_status <= MaxUserStatusId
    /\ \E user \in Users, status \in StatusIds, auth \in BOOLEAN :
        \E body \in {DocumentedUserStatus(user, status)}
                    \cup {NewUserStatus(pid, user, status) : pid \in 1..MaxPipelineId} :
            Send(Request("pipeline", "POST", <<"user_status">>, body, auth))

MoveUser ==
    \E user \in Users, status \in StatusIds, auth \in BOOLEAN :
        Send(Request("pipeline", "PUT", <<"user_status", IdStr[user]>>,
                     [NoBody EXCEPT !.pipeline_status_id = status], auth))

RemoveUserStatus ==
    \E user \in Users, pid \in PipelineIds, auth \in BOOLEAN :
        Send(Request("pipeline", "PUT", <<"user_status", "remove">>,
                     [NoBody EXCEPT !.user_id = user, !.pipeline_id = pid], auth))

ListForms ==
    \E auth \in BOOLEAN :
        Send(Request("form", "GET", <<>>, NoBody, auth))

CreateForm ==
    /\ db.seq.forms <= MaxFormId
    /\ \E name \in Names, auth \in BOOLEAN :
        Send(Request("form", "POST", <<>>, [NoBody EXCEPT !.name = name], auth))

GetFormWithSections ==
    \E id \in 1..MaxFormId, auth \in BOOLEAN :
        Send(Request("form", "GET", <<IdStr[id], "all">>, NoBody, auth))

\* The sections, questions and answers of a form are written by no route of the
\* form router; they are rows the form builder stores.
QuestionText == <<"q1", "q2", "q3", "q4">>

\* A write that is no request: the step serves none.
Stored(d) ==
    /\ db' = d
    /\ req' = NoRequest
    /\ res' = NoResponse
    /\ before' = db
    /\ UNCHANGED <<client, formPage, others>>

AddSection ==
    /\ db.seq.sections <= MaxSectionId
    /\ \E f \in db.forms :
        Stored([db EXCEPT
            !.sections = @ \cup {[id |-> db.seq.sections, form_id |-> f.id,
                                  order |-> 1, name |-> "s", description |-> "d"]},
            !.seq.sections = @ + 1])

AddQuestion ==
    /\ db.seq.question <= MaxQuestionId
    /\ \E x \in db.sections :
        Stored([db EXCEPT
            !.question = @ \cup {[id |-> db.seq.question, section_id |-> x.id,
                                  question |-> QuestionText[db.seq.question],
                                  description |-> "d", order |-> 1,
                                  answer_type |-> "multiple_choice", archived |-> FALSE]},
            !.seq.question = @ + 1])

AddAnswer ==
    /\ db.seq.multiple_choice_answers <= MaxAnswerId
    /\ \E q \in db.question :
        Stored([db EXCEPT
            !.multiple_choice_answers = @ \cup
                {[id |-> db.seq.multiple_choice_answers, question_id |-> q.id,
                  answer |-> "yes"]},
            !.seq.multiple_choice_answers = @ + 1])

\* Archiving a question sets its archived flag.
ArchiveQuestion ==
    \E q \in db.question :
        /\ ~q.archived
        /\ Stored([db EXCEPT !.question =
                    (@ \ {q}) \cup {[q EXCEPT !.archived = TRUE]}])

---------------------------------------------------------------------------
\* The client store: the pipeline slice.

\* The JavaScript values the slice holds: the object {} and arrays of rows.
EmptyObject == [type |-> "object", rows |-> <<>>]
ArrayOf(rows) == [type |-> "array", rows |-> rows]

InitialStore == [pipelines |-> ArrayOf(<<>>), selectedPipeline |-> EmptyObject]

NotSettled == [call |-> 0, store |-> InitialStore, calls |-> 0]
NoneSettled == [pipelines |-> 0, selectedPipeline |-> 0]

NoAnswer == [status |-> 0, data |-> <<>>]

\* A call of an async action: its HTTP request is sent, then answered, and then
\* the code after the await runs and the call's promise is fulfilled or rejected.
CallOf(fn, rq) == [fn |-> fn, request |-> rq, pc |-> "sent", response |-> NoAnswer]

\* axios resolves a 2xx response and rejects every other.
AxiosResolves(response) == response.status >= 200 /\ response.status < 300

\* The part of each action that runs before its await: the request goes out.
\* The store is used from a logged-in session.
fetchPipeline(cs) ==
    Append(cs, CallOf("fetchPipeline", Request("pipeline", "GET", <<>>, NoBody, TRUE)))

addPipeline(cs, newPipeline) ==
    Append(cs, CallOf("addPipeline", Request("pipeline", "POST", <<>>, newPipeline, TRUE)))

fetchPipelineById(cs, pipelineId) ==
    Append(cs, CallOf("fetchPipelineById",
                      Request("pipeline", "GET", <<IdStr[pipelineId]>>, NoBody, TRUE)))

\* The part after the await: what the call does to the store and to the calls.
\* Both give [store, calls, pc].
After(st, cs, pc) == [store |-> st, calls |-> cs, pc |-> pc]

\* The catch only logs, and leaves the list as it is.
fetchPipelineKeepsListOnError(st, cs, c) ==
    IF AxiosResolves(c.response)
    THEN After([st EXCEPT !.pipelines = ArrayOf(c.response.data)], cs, "fulfilled")
    ELSE After(st, cs, "fulfilled")

fetchPipelineAfterAwait(st, cs, c) ==
    IF AxiosResolves(c.response)
    THEN After([st EXCEPT !.pipelines = ArrayOf(c.response.data)], cs, "fulfilled")
    ELSE After([st EXCEPT !.pipelines = ArrayOf(<<>>)], cs, "fulfilled")

\* get().fetchPipeline() is not awaited: the refresh is only started here.
addPipelineAfterAwait(st, cs, c) ==
    IF AxiosResolves(c.response)
    THEN After(st, fetchPipeline(cs), "fulfilled")
    ELSE After(st, cs, "fulfilled")

\* A response is dropped when a later call of the action has already settled.
fetchPipelineByIdDropsStale(st, cs, c) ==
    IF \E j \in DOMAIN cs :
            /\ cs[j].fn = "fetchPipelineById" /\ cs[j].pc = "fulfilled"
            /\ \E i \in DOMAIN cs : cs[i] = c /\ i < j
    THEN After(st, cs, "fulfilled")
    ELSE IF AxiosResolves(c.response)
    THEN After([st EXCEPT !.selectedPipeline = ArrayOf(c.response.data)], cs, "fulfilled")
    ELSE After([st EXCEPT !.selectedPipeline = EmptyObject], cs, "fulfilled")

fetchPipelineByIdAfterAwait(st, cs, c) ==
    IF AxiosResolves(c.response)
    THEN After([st EXCEPT !.selectedPipeline = ArrayOf(c.response.data)], cs, "fulfilled")
    ELSE After([st EXCEPT !.selectedPipeline = EmptyObject], cs, "fulfilled")

\* The calls the user interface made: all but the refreshes addPipeline started.
Refreshes ==
    {i \in DOMAIN calls :
        calls[i].fn = "addPipeline" /\ calls[i].pc = "fulfilled"
        /\ AxiosResolves(calls[i].response)}
CallsMade == Len(calls) - Cardinality(Refreshes)

FetchPipeline ==
    /\ CallsMade < MaxCalls
    /\ calls' = fetchPipeline(calls)
    /\ settled' = NotSettled
    /\ UNCHANGED <<store, lastSettled, server, formPage, others>>

AddPipeline ==
    /\ CallsMade < MaxCalls
    /\ \E name \in Names \cup {Undefined} :
        calls' = addPipeline(calls, [NoBody EXCEPT !.name = name])
    /\ settled' = NotSettled
    /\ UNCHANGED <<store, lastSettled, server, formPage, others>>

FetchPipelineById ==
    /\ CallsMade < MaxCalls
    /\ \E pipelineId \in PipelineIds : calls' = fetchPipelineById(calls, pipelineId)
    /\ settled' = NotSettled
    /\ UNCHANGED <<store, lastSettled, server, formPage, others>>

\* The server answers a request that is in flight.
ServerAnswers ==
    \E i \in DOMAIN calls :
        /\ calls[i].pc = "sent"
        /\ db.seq.pipeline <= MaxPipelineId \/ calls[i].request.method # "POST"
        /\ \E out \in Serve(db, calls[i].request) :
            /\ db' = out.db
            /\ calls' = [calls EXCEPT ![i].pc = "answered",
                                      ![i].response = [status |-> out.status, data |-> out.body]]
        /\ settled' = NotSettled
        /\ UNCHANGED <<store, lastSettled, req, res, before, formPage, others>>

\* The code after the await of call i runs.
Settle(i, after, field) ==
    /\ store' = after.store
    /\ calls' = [after.calls EXCEPT ![i].pc = after.pc]
    /\ settled' = [call |-> i, store |-> store, calls |-> Len(calls)]
    /\ lastSettled' = IF field = "none" THEN lastSettled
                      ELSE [lastSettled EXCEPT ![field] = i]
    /\ UNCHANGED <<server, formPage, others>>

FetchPipelineSettles ==
    \E i \in DOMAIN calls :
        /\ calls[i].fn = "fetchPipeline" /\ calls[i].pc = "answered"
        /\ Settle(i, fetchPipelineAfterAwait(store, calls, calls[i]), "pipelines")

AddPipelineSettles ==
    \E i \in DOMAIN calls :
        /\ calls[i].fn = "addPipeline" /\ calls[i].pc = "answered"
        /\ Settle(i, addPipelineAfterAwait(store, calls, calls[i]), "none")

FetchPipelineByIdSettles ==
    \E i \in DOMAIN calls :
        /\ calls[i].fn = "fetchPipelineById" /\ calls[i].pc = "answered"
        /\ Settle(i, fetchPipelineByIdAfterAwait(store, calls, calls[i]), "selectedPipeline")

---------------------------------------------------------------------------
\* FormPage and the submission it creates or gets.

\* createOrGetSubmissionByFormId(formId): the request goes out with the session's user.
createOrGetSubmissionByFormId(cs, formId, sessionUser) ==
    Append(cs, [form_id |-> formId, user_id |-> sessionUser, pc |-> "sent",
                found |-> NULL, id |-> NULL])

\* useEffect(..., [user, formId]): the effect runs when FormPage mounts and again
\* whenever user or formId is another value than at the last render.
FormPageEffect(formId) ==
    /\ Len(subCalls) < MaxSubmissionCalls
    /\ subCalls' = createOrGetSubmissionByFormId(subCalls, formId, page.session)

\* FormPage mounts at /form/:formId.
FormPageMounts ==
    /\ page.formId = NULL
    /\ \E formId \in 1..MaxFormId :
        /\ page' = [page EXCEPT !.formId = formId]
        /\ FormPageEffect(formId)
    /\ UNCHANGED <<server, client, others>>

\* The store's user becomes the logged-in user while FormPage is mounted.
UserChanges ==
    /\ page.formId # NULL
    /\ page.user = NULL
    /\ page' = [page EXCEPT !.user = page.session]
    /\ FormPageEffect(page.formId)
    /\ UNCHANGED <<server, client, others>>

\* The route changes to another form.
FormIdChanges ==
    /\ page.formId # NULL
    /\ \E formId \in (1..MaxFormId) \ {page.formId} :
        /\ page' = [page EXCEPT !.formId = formId]
        /\ FormPageEffect(formId)
    /\ UNCHANGED <<server, client, others>>

SubmissionsOf(d, formId, userId) ==
    {x \in d.submission : x.form_id = formId /\ x.user_id = userId}

\* create or get submission, first statement: look up the submission of (form, user).
LookUpSubmission ==
    \E i \in DOMAIN subCalls :
        /\ subCalls[i].pc = "sent"
        /\ LET have == SubmissionsOf(db, subCalls[i].form_id, subCalls[i].user_id)
           IN subCalls' = [subCalls EXCEPT
                ![i].pc = "looked",
                ![i].found = IF have = {} THEN NULL ELSE Min({x.id : x \in have})]
        /\ UNCHANGED <<server, client, page, others>>

\* Second statement: create one if none was found; answer the submission's id.
CreateOrGetSubmission ==
    \E i \in DOMAIN subCalls :
        /\ subCalls[i].pc = "looked"
        /\ IF subCalls[i].found = NULL
           THEN /\ db' = [db EXCEPT
                        !.submission = @ \cup
                            {[id |-> db.seq.submission, form_id |-> subCalls[i].form_id,
                              user_id |-> subCalls[i].user_id]},
                        !.seq.submission = @ + 1]
                /\ subCalls' = [subCalls EXCEPT ![i].pc = "answered",
                                                ![i].id = db.seq.submission]
           ELSE /\ db' = db
                /\ subCalls' = [subCalls EXCEPT ![i].pc = "answered",
                                                ![i].id = subCalls[i].found]
        /\ UNCHANGED <<req, res, before, client, page, others>>

---------------------------------------------------------------------------
\* Credential hashing: the encryption module over bcrypt.

SALT_WORK_FACTOR == 10

\* bcrypt's key schedule reads 18 words of 4 bytes from the key.
BcryptKeyBytes == 72

Chars == {"a", "b"}
NUL == "NUL"

\* The passwords tried: the short ones, and ones that fill bcrypt's key and go
\* beyond it.
ShortPasswords == UNION {[1..n -> Chars] : n \in 0..MaxPasswordLen}
Filler == [i \in 1..(BcryptKeyBytes - 1) |-> "a"]
LongPasswords == {Filler \o tail : tail \in ShortPasswords \ {<<>>}}
Passwords == ShortPasswords \cup LongPasswords

Salts == 1..MaxSalt

\* The key bcrypt derives from a password: the bytes of the password and a
\* terminating NUL, read cyclically until BcryptKeyBytes bytes are read.
BcryptKey(password) ==
    LET bytes == Append(password, NUL)
    IN [i \in 1..BcryptKeyBytes |-> bytes[((i - 1) % Len(bytes)) + 1]]

\* bcrypt.hashSync(password, salt): the digest names the cost and the salt; the
\* hash is a one-to-one image of cost, salt and key.
hashSync(password, salt) ==
    [cost |-> salt.cost, salt |-> salt.salt,
     hash |-> <<salt.cost, salt.salt, BcryptKey(password)>>]

\* bcrypt.genSaltSync(rounds): one of the random salts.
genSaltSync(rounds) == {[cost |-> rounds, salt |-> x] : x \in Salts}

\* The digests encryptPassword(password) can return.
encryptPassword(password) ==
    {hashSync(password, salt) : salt \in genSaltSync(SALT_WORK_FACTOR)}

\* bcrypt.compareSync(s, hash): hash s with the cost and salt of the digest.
compareSync(s, digest) ==
    hashSync(s, [cost |-> digest.cost, salt |-> digest.salt]) = digest

\* The candidate is hashed with a salt of its own.
comparePasswordWithNewSalt(candidatePassword, storedPassword) ==
    \E salt \in genSaltSync(SALT_WORK_FACTOR) :
        /\ salt.salt # storedPassword.salt
        /\ hashSync(candidatePassword, salt) = storedPassword

comparePassword(candidatePassword, storedPassword) ==
    compareSync(candidatePassword, storedPassword)

NoAccount == [password |-> <<>>, digest |-> <<>>, candidate |-> <<>>, match |-> "none"]

\* A password is hashed and the digest stored.
EncryptPassword ==
    /\ \E p \in Passwords :
        \E digest \in encryptPassword(p) :
            account' = [password |-> p, digest |-> digest, candidate |-> <<>>,
                        match |-> "none"]
    /\ UNCHANGED <<server, client, formPage, modal, formRoute>>

\* A candidate is compared with the stored digest.
ComparePassword ==
    /\ account.digest # <<>>
    /\ \E c \in Passwords :
        account' = [account EXCEPT !.candidate = c,
                                   !.match = IF comparePassword(c, account.digest)
                                             THEN "yes" ELSE "no"]
    /\ UNCHANGED <<server, client, formPage, modal, formRoute>>

---------------------------------------------------------------------------
\* The AddUserToPipeline component.

\* selectedUser === null
NoUser == [id |-> NULL, username |-> Undefined]

\* What the store's foundUsers can hold: the users a search found, or [].
FoundLists == UNION {Orderings(S) : S \in SUBSET UserRows}

\* JavaScript on the values selectedPipeline holds, {} and arrays of rows.
\* !v: objects and arrays are truthy.
Falsy(v) == v.type \notin {"object", "array"}
\* Object.keys(v): the indices of an array; {} has none.
ObjectKeys(v) == IF v.type = "array" THEN DOMAIN v.rows ELSE {}
\* v.statuses: undefined unless v has the property.
Statuses(v) == IF "statuses" \in DOMAIN v THEN v.statuses ELSE Undefined

\* The component's state when nothing was found and nothing rendered or clicked.
NoModal == [foundUsers |-> <<>>, last |-> [step |-> "none"]]

\* The click on "Add User": alerts and returns, or calls addUserStatus once.
addUserToPipeline(selectedPipelineWithData, selectedUser, pipelineId, initialPipelineStatusId) ==
    LET clicked == [step |-> "click", selectedPipeline |-> selectedPipelineWithData,
                    selectedUser |-> selectedUser, pipelineId |-> pipelineId,
                    initialPipelineStatusId |-> initialPipelineStatusId,
                    alert |-> "none", addUserStatus |-> <<>>]
    IN IF \/ Falsy(selectedPipelineWithData)
          \/ Cardinality(ObjectKeys(selectedPipelineWithData)) = 0
       THEN [clicked EXCEPT !.alert = "Please select a pipeline"]
       ELSE IF selectedUser = NoUser
       THEN [clicked EXCEPT !.alert = "Please select a user"]
       ELSE [clicked EXCEPT !.addUserStatus =
                <<NewUserStatus(pipelineId, selectedUser.id, initialPipelineStatusId)>>]

\* The part of the render that computes usersAvailableToAdd: it completes with
\* the list, or throws the TypeError of undefined.map.
usersAvailableToAdd(selectedPipelineWithData, foundUsers) ==
    LET rendered == [step |-> "render", selectedPipeline |-> selectedPipelineWithData,
                     foundUsers |-> foundUsers, error |-> "none",
                     usersAvailableToAdd |-> <<>>]
    IN IF Len(foundUsers) > 0
       THEN IF Statuses(selectedPipelineWithData) = Undefined
            THEN [rendered EXCEPT !.error = "TypeError"]
            ELSE LET statuses == Statuses(selectedPipelineWithData)
                     unfilteredUsers ==
                        UNION {{st.applicants[k] : k \in DOMAIN st.applicants} :
                                st \in {statuses[i] : i \in DOMAIN statuses}}
                     Available(user) == ~\E u \in unfilteredUsers : u.id = user.id
                 IN [rendered EXCEPT
                        !.usersAvailableToAdd = SelectSeq(foundUsers, Available)]
       ELSE rendered

\* A pipeline is selected: its detail is fetched into the store.
SelectPipeline ==
    /\ Len(calls) < MaxSelections
    /\ FetchPipelineById

\* A search sets the store's foundUsers.
SearchingApplicant ==
    /\ \E found \in FoundLists : modal' = [modal EXCEPT !.foundUsers = found]
    /\ UNCHANGED <<server, client, formPage, account, formRoute>>

\* The component renders with the store's selectedPipeline and foundUsers.
Render ==
    /\ modal' = [modal EXCEPT
                    !.last = usersAvailableToAdd(store.selectedPipeline, modal.foundUsers)]
    /\ UNCHANGED <<server, client, formPage, account, formRoute>>

\* The handler of "Add User" runs, the component's selectedUser being a user or
\* null and its props any ids. selectedUser is taken as given: it is the state a
\* click on an offered user sets. After addUserStatus the handler searches for
\* '', which sets foundUsers anew.
ClickAddUser ==
    /\ \E selectedUser \in UserRows \cup {NoUser}, pipelineId \in 1..MaxPipelineId,
          initialPipelineStatusId \in 1..MaxStatusId :
        LET clicked == addUserToPipeline(store.selectedPipeline, selectedUser,
                                         pipelineId, initialPipelineStatusId)
        IN \E found \in FoundLists :
            /\ clicked.addUserStatus = <<>> => found = modal.foundUsers
            /\ modal' = [foundUsers |-> found, last |-> clicked]
    /\ UNCHANGED <<server, client, formPage, account, formRoute>>

---------------------------------------------------------------------------
\* FormPage's redirect to the first section.

\* The characters of a sectionIndex in the URL.
IndexChars == {"0", "1", "a", "-", ".", " "}
\* The sectionIndex segments a URL can have: the non-empty texts.
IndexTexts == UNION {[1..n -> IndexChars] : n \in 1..MaxIndexLen}

\* Number(text), as far as isNaN needs it: white space is trimmed, the empty text
\* is 0, an optionally signed decimal literal (digits, digits with a fraction, a
\* fraction alone) is its value, every other text is NaN.
RECURSIVE TrimLeft(_)
TrimLeft(text) ==
    IF text # <<>> /\ Head(text) = " " THEN TrimLeft(Tail(text)) ELSE text

RECURSIVE TrimRight(_)
TrimRight(text) ==
    IF text # <<>> /\ text[Len(text)] = " "
    THEN TrimRight(SubSeq(text, 1, Len(text) - 1)) ELSE text

DecimalDigits(text) == \A i \in DOMAIN text : text[i] \in {"0", "1"}

StrUnsignedDecimalLiteral(text) ==
    \/ text # <<>> /\ DecimalDigits(text)
    \/ \E p \in DOMAIN text :
        /\ text[p] = "."
        /\ DecimalDigits(SubSeq(text, 1, p - 1))
        /\ DecimalDigits(SubSeq(text, p + 1, Len(text)))
        /\ Len(text) > 1

StrDecimalLiteral(text) ==
    IF text # <<>> /\ Head(text) = "-"
    THEN StrUnsignedDecimalLiteral(Tail(text))
    ELSE StrUnsignedDecimalLiteral(text)

StringToNumberIsNaN(text) ==
    LET trimmed == TrimRight(TrimLeft(text))
    IN trimmed # <<>> /\ ~StrDecimalLiteral(trimmed)

\* isNaN(value): Number(undefined) is NaN.
isNaN(value) == value = <<Undefined>> \/ StringToNumberIsNaN(value)

\* The redirect goes to a section named by a word.
FirstSectionUrlByName(formId) == <<"form", formId, <<"a">>>>

\* `/form/${formId}/0`
FirstSectionUrl(formId) == <<"form", formId, <<"0">>>>

\* The undefined of a param the URL does not have, as a text no URL has.
UndefinedParam == <<Undefined>>

\* useParams() on the route /form/:formId/:sectionIndex?
UseParams(url) ==
    [formId |-> url[2],
     sectionIndex |-> IF Len(url) >= 3 THEN url[3] ELSE UndefinedParam]

\* The URLs FormPage can be opened at.
FormUrls ==
    {<<"form", IdStr[f]>> : f \in 1..MaxFormId}
        \cup {<<"form", IdStr[f], text>> : f \in 1..MaxFormId, text \in IndexTexts}

\* FormPage is not shown.
NoRoute == [url |-> <<>>, start |-> <<>>, effect |-> "none", redirects |-> 0]

\* The browser opens a URL of FormPage: the component renders with the URL's
\* params and its effect on [sectionIndex] is due.
OpenFormUrl ==
    /\ formRoute.effect # "due"
    /\ \E url \in FormUrls :
        formRoute' = [url |-> url, start |-> url, effect |-> "due", redirects |-> 0]
    /\ UNCHANGED <<server, client, formPage, account, modal>>

\* The effect on [sectionIndex] runs: it navigates to the first section when
\* sectionIndex is undefined or not a number. The component renders at the new
\* URL, and the effect is due again only if sectionIndex has changed.
SectionIndexEffect ==
    /\ formRoute.effect = "due"
    /\ LET sectionIndex == UseParams(formRoute.url).sectionIndex
           formId == UseParams(formRoute.url).formId
       IN IF sectionIndex = UndefinedParam \/ isNaN(sectionIndex)
          THEN LET url == FirstSectionUrl(formId)
               IN formRoute' = [formRoute EXCEPT
                        !.url = url,
                        !.redirects = @ + 1,
                        !.effect = IF UseParams(url).sectionIndex # sectionIndex
                                   THEN "due" ELSE "ran"]
          ELSE formRoute' = [formRoute EXCEPT !.effect = "ran"]
    /\ UNCHANGED <<server, client, formPage, account, modal>>

\* A pipeline with one status and the users assigned to it.
RECURSIVE AssignAll(_, _)
AssignAll(d, users) ==
    IF users = <<>> THEN d
    ELSE AssignAll(InsertUserStatus(d, Head(users).id, 1).db, Tail(users))

Board(users) ==
    AssignAll(InsertPipelineStatus(InsertPipeline(EmptyDb, "a").db, 1, 1, "applied").db,
              users)

NoPage == [formId |-> NULL, user |-> NULL, session |-> NULL]

\* An empty database, a fresh store, no page rendered.
Init ==
    /\ db = EmptyDb
    /\ req = NoRequest
    /\ res = NoResponse
    /\ before = EmptyDb
    /\ store = InitialStore
    /\ calls = <<>>
    /\ settled = NotSettled
    /\ lastSettled = NoneSettled
    /\ page = NoPage
    /\ subCalls = <<>>
    /\ account = NoAccount
    /\ modal = NoModal
    /\ formRoute = NoRoute

\* The same, in the browser of a logged-in user: the session cookie names the user.
InitLoggedIn ==
    /\ db = EmptyDb
    /\ req = NoRequest
    /\ res = NoResponse
    /\ before = EmptyDb
    /\ store = InitialStore
    /\ calls = <<>>
    /\ settled = NotSettled
    /\ lastSettled = NoneSettled
    /\ \E u \in Users : page = [NoPage EXCEPT !.session = u]
    /\ subCalls = <<>>
    /\ account = NoAccount
    /\ modal = NoModal
    /\ formRoute = NoRoute

Next ==
    \/ ListPipelines
    \/ GetPipelineDetail
    \/ CreatePipeline
    \/ DeletePipelineOp
    \/ RenamePipeline
    \/ CreateStatus
    \/ DeleteStatus
    \/ UpdateStatus
    \/ AssignUser
    \/ MoveUser
    \/ RemoveUserStatus

Spec == Init /\ [][Next]_vars

\* The form router alone.
NextForm ==
    \/ ListForms
    \/ CreateForm

SpecForm == Init /\ [][NextForm]_vars

\* The form router over forms that have sections and questions.
NextFormAll ==
    \/ CreateForm
    \/ AddSection
    \/ AddQuestion
    \/ AddAnswer
    \/ ArchiveQuestion
    \/ GetFormWithSections

SpecFormAll == Init /\ [][NextFormAll]_vars

\* The store's pipeline slice against the server.
NextStore ==
    \/ FetchPipeline
    \/ AddPipeline
    \/ FetchPipelineById
    \/ ServerAnswers
    \/ FetchPipelineSettles
    \/ AddPipelineSettles
    \/ FetchPipelineByIdSettles

SpecStore == Init /\ [][NextStore]_vars

\* FormPage against the submission route.
NextSubmission ==
    \/ FormPageMounts
    \/ UserChanges
    \/ FormIdChanges
    \/ LookUpSubmission
    \/ CreateOrGetSubmission

SpecSubmission == InitLoggedIn /\ [][NextSubmission]_vars

\* The AddUserToPipeline component over the store, the server holding a pipeline
\* with none, one or all of the users.
InitBoard ==
    /\ \E users \in FoundLists : db = Board(users) /\ before = Board(users)
    /\ req = NoRequest
    /\ res = NoResponse
    /\ store = InitialStore
    /\ calls = <<>>
    /\ settled = NotSettled
    /\ lastSettled = NoneSettled
    /\ page = NoPage
    /\ subCalls = <<>>
    /\ account = NoAccount
    /\ modal = NoModal
    /\ formRoute = NoRoute

NextAddUser ==
    \/ SelectPipeline
    \/ ServerAnswers
    \/ FetchPipelineByIdSettles
    \/ SearchingApplicant
    \/ Render
    \/ ClickAddUser

SpecAddUser == InitBoard /\ [][NextAddUser]_vars

\* FormPage's redirect. React runs an effect that is due, so the effect is
\* weakly fair.
NextRedirect ==
    \/ OpenFormUrl
    \/ SectionIndexEffect

SpecRedirect == Init /\ [][NextRedirect]_vars /\ WF_vars(SectionIndexEffect)

\* The encryption module.
NextPassword ==
    \/ EncryptPassword
    \/ ComparePassword

SpecPassword == Init /\ [][NextPassword]_vars

---------------------------------------------------------------------------
\* Properties of the API operations.

IsCreatePipeline(rq) == rq.mount = "pipeline" /\ rq.method = "POST" /\ rq.path = <<>>
IsUpdateStatus(rq) ==
    /\ rq.mount = "pipeline" /\ rq.method = "PUT"
    /\ Len(rq.path) = 2 /\ rq.path[1] = "pipeline_status"
IsRemoveUserStatus(rq) ==
    rq.mount = "pipeline" /\ rq.method = "PUT" /\ rq.path = <<"user_status", "remove">>

\* The pipeline a user_status row of table t belongs to (NULL when it has none).
PipelineOfRow(d, u) ==
    IF HasStatus(d, u.pipeline_status_id)
    THEN StatusById(d, u.pipeline_status_id).pipeline_id
    ELSE NULL

\* C1: a POST /api/pipeline whose body has no name inserts no pipeline row, and
\* the handler answers it 400.
C1_MissingNameIs400 ==
    (IsCreatePipeline(req) /\ req.body.name = Undefined) =>
        /\ db.pipeline = before.pipeline
        /\ db = before
        /\ (req.auth => res.status = 400 /\ res.by = "PostPipeline")

C1_Witness ==
    /\ IsCreatePipeline(req) /\ req.body.name = Undefined /\ req.auth
    /\ res.status = 400
    /\ before.pipeline # {}

\* C3: a move that answers 200 for a user who has a status row sets the status
\* of exactly one row, a row of that user, and leaves every other row as it was.
C3_MoveSetsExactlyOneRow ==
    (/\ res.by = "PutUserStatus" /\ res.status = 200
     /\ \E u \in before.user_status : u.user_id = ParseId(req.path[2])
     /\ \A u \in before.user_status : u.pipeline_status_id # NULL) =>
        \E u \in before.user_status :
            /\ u.user_id = ParseId(req.path[2])
            /\ db.user_status =
                (before.user_status \ {u})
                    \cup {[u EXCEPT !.pipeline_status_id = req.body.pipeline_status_id]}

\* C4: an authenticated PUT /api/pipeline/user_status/remove is answered by the
\* remove handler, with 204 unless the query failed, and a 204 means the rows of
\* that user in that pipeline are gone and no other row changed.
C4_RemoveHandledByRemove ==
    (IsRemoveUserStatus(req) /\ req.auth) =>
        /\ res.by = "PutUserStatusRemove"
        /\ res.status \in {204, 500}
        /\ res.status = 204 =>
            db.user_status =
                {u \in before.user_status :
                    ~(u.user_id = req.body.user_id
                      /\ PipelineOfRow(before, u) = req.body.pipeline_id)}

\* C5: an authenticated update status(id, order, name) is answered by the update
\* handler, with 200 unless the query failed, and a 200 means the row with that id
\* has the given order and name and every other row is as it was.
C5_UpdateStatusSetsOrderAndName ==
    (IsUpdateStatus(req) /\ req.auth) =>
        /\ res.by = "PutPipelineStatus"
        /\ res.status \in {200, 500}
        /\ res.status = 200 =>
            db.pipeline_status =
                {IF s.id = ParseId(req.path[2])
                    THEN [s EXCEPT !.order = req.body.order, !.name = req.body.name]
                    ELSE s : s \in before.pipeline_status}

\* The status a request body asks for: p_s_id in the documented body,
\* pipeline_status_id in the body the component builds.
AskedStatus(rq) ==
    IF rq.body.p_s_id # NULL THEN rq.body.p_s_id ELSE rq.body.pipeline_status_id

\* C6: after assign user to status answers 201, the detail of the pipeline that
\* owns the status has a row with that user and that status.
C6_AssignedUserIsInDetail ==
    (res.by = "PostUserStatus" /\ res.status = 201 /\ HasStatus(db, AskedStatus(req))) =>
        \E rows \in SelectPipelineDetail(db, StatusById(db, AskedStatus(req)).pipeline_id) :
            \E i \in DOMAIN rows :
                /\ rows[i].user_id = req.body.user_id
                /\ rows[i].pipeline_status_id = AskedStatus(req)

\* C7: there is at most one user_status row for each user and pipeline.
C7_OneRowPerUserAndPipeline ==
    \A u1, u2 \in db.user_status :
        (/\ u1.user_id = u2.user_id
         /\ PipelineOfRow(db, u1) # NULL
         /\ PipelineOfRow(db, u1) = PipelineOfRow(db, u2)) => u1 = u2

\* C2: a POST, PUT or DELETE without an authenticated session is not served: it
\* gets no success status and it changes no stored row.
C2_MutatingRoutesNeedSession ==
    (req.method \in {"POST", "PUT", "DELETE"} /\ ~req.auth) =>
        /\ res.status \notin {200, 201, 204}
        /\ db = before

---------------------------------------------------------------------------
\* Properties of the store.

Failed(c) == ~AxiosResolves(c.response)

\* C8 as stated: when the request of a store action fails, the action resets its
\* state field to the empty value (pipelines for fetchPipeline and addPipeline,
\* selectedPipeline for fetchPipelineById), makes no further request and does
\* not throw.
C8_EveryActionResetsOnFailure ==
    (settled.call # 0 /\ Failed(calls[settled.call])) =>
        LET c == calls[settled.call]
        IN /\ c.fn \in {"fetchPipeline", "addPipeline"} => store.pipelines = ArrayOf(<<>>)
           /\ c.fn = "fetchPipelineById" => store.selectedPipeline = EmptyObject
           /\ Len(calls) = settled.calls
           /\ c.pc = "fulfilled"

\* C8 amended: a failed fetchPipeline sets pipelines to [] and a failed
\* fetchPipelineById sets selectedPipeline to {}; a failed addPipeline leaves the
\* store as it was; none of the three makes a further request or throws.
C8_FetchesResetOnFailure ==
    (settled.call # 0 /\ Failed(calls[settled.call])) =>
        LET c == calls[settled.call]
        IN /\ c.fn = "fetchPipeline" =>
                store = [settled.store EXCEPT !.pipelines = ArrayOf(<<>>)]
           /\ c.fn = "fetchPipelineById" =>
                store = [settled.store EXCEPT !.selectedPipeline = EmptyObject]
           /\ c.fn = "addPipeline" => store = settled.store
           /\ Len(calls) = settled.calls
           /\ c.pc = "fulfilled"

\* A fetchPipeline fails after the list was filled.
C8_Witness ==
    /\ settled.call # 0 /\ Failed(calls[settled.call])
    /\ calls[settled.call].fn = "fetchPipeline"
    /\ settled.store.pipelines # ArrayOf(<<>>)
    /\ store.pipelines = ArrayOf(<<>>)

\* What a settled call of a fetch leaves in its state field.
OutcomeOf(c) ==
    IF AxiosResolves(c.response)
    THEN ArrayOf(c.response.data)
    ELSE IF c.fn = "fetchPipelineById" THEN EmptyObject ELSE ArrayOf(<<>>)

\* C9: each state field holds the outcome of the call that settled last on it,
\* whatever the order the calls were made in.
C9_LastResponseWins ==
    /\ lastSettled.selectedPipeline # 0 =>
            store.selectedPipeline = OutcomeOf(calls[lastSettled.selectedPipeline])
    /\ lastSettled.pipelines # 0 =>
            store.pipelines = OutcomeOf(calls[lastSettled.pipelines])
    /\ \A i \in DOMAIN calls :
            (calls[i].fn = "fetchPipelineById" /\ calls[i].pc \notin {"sent", "answered"})
                => lastSettled.selectedPipeline # 0

\* Two fetchPipelineById calls: the later one settled first, with rows; the
\* earlier one settled last, failed, and left {}.
C9_Witness ==
    \E i, j \in DOMAIN calls :
        /\ i < j
        /\ calls[i].fn = "fetchPipelineById" /\ calls[j].fn = "fetchPipelineById"
        /\ calls[j].pc = "fulfilled" /\ AxiosResolves(calls[j].response)
        /\ lastSettled.selectedPipeline = i /\ settled.call = i
        /\ Failed(calls[i])
        /\ settled.store.selectedPipeline = ArrayOf(calls[j].response.data)
        /\ store.selectedPipeline = EmptyObject

---------------------------------------------------------------------------
\* Properties of create or get submission.

\* C10: two answered calls of create or get submission with the same form and
\* user got the same submission id, and that form and user have one submission.
C10_CreateOrGetIsIdempotent ==
    \A i, j \in DOMAIN subCalls :
        (/\ subCalls[i].pc = "answered" /\ subCalls[j].pc = "answered"
         /\ subCalls[i].form_id = subCalls[j].form_id
         /\ subCalls[i].user_id = subCalls[j].user_id) =>
            /\ subCalls[i].id = subCalls[j].id
            /\ Cardinality(SubmissionsOf(db, subCalls[i].form_id, subCalls[i].user_id)) = 1

---------------------------------------------------------------------------
\* Properties of deletes, updates and failures.

\* C12: after delete status(id) answers 204, no user_status row references the
\* deleted status and the user_status rows of other statuses are as they were.
C12_DeleteStatusCascades ==
    (res.by = "DeletePipelineStatus" /\ res.status = 204) =>
        /\ \A u \in db.user_status : u.pipeline_status_id # ParseId(req.path[2])
        /\ db.user_status =
            {u \in before.user_status : u.pipeline_status_id # ParseId(req.path[2])}

\* A status with a user is deleted while another status has a user too.
C12_Witness ==
    /\ res.by = "DeletePipelineStatus" /\ res.status = 204
    /\ \E u \in before.user_status : u.pipeline_status_id = ParseId(req.path[2])
    /\ \E u \in before.user_status :
            u.pipeline_status_id \notin {NULL, ParseId(req.path[2])}
    /\ db.user_status # {}

\* The request names, by a numeric id, a row that table d does not have:
\* delete pipeline, rename pipeline, delete status, move user.
NamesNoRow(rq, d) ==
    /\ rq.mount = "pipeline"
    /\ \/ /\ rq.method \in {"DELETE", "PUT"}
          /\ Len(rq.path) = 1 /\ IsIntText(rq.path[1])
          /\ ~HasPipeline(d, ParseId(rq.path[1]))
       \/ /\ rq.method = "DELETE"
          /\ Len(rq.path) = 2 /\ rq.path[1] = "pipeline_status" /\ IsIntText(rq.path[2])
          /\ ~HasStatus(d, ParseId(rq.path[2]))
       \/ /\ rq.method = "PUT"
          /\ Len(rq.path) = 2 /\ rq.path[1] = "user_status" /\ IsIntText(rq.path[2])
          /\ ~\E u \in d.user_status : u.user_id = ParseId(rq.path[2])

MalformedCreate(rq) ==
    /\ rq.method = "POST"
    /\ \/ rq.path = <<>> /\ rq.body.name = Undefined
       \/ /\ rq.path = <<"status">>
          /\ (rq.body.name = Undefined \/ rq.body.pipeline_id = NULL \/ rq.body.order = NULL)
       \/ /\ rq.path = <<"user_status">>
          /\ (rq.body.user_id = NULL \/ rq.body.p_s_id = NULL)

\* C14: an operation whose query failed answers 500, or 400 when the request is
\* a malformed create; 400 is answered for nothing but a malformed create; and a
\* failed query is never answered with a success status.
C14_FailureSemantics ==
    /\ (res.query = "failed" /\ ~MalformedCreate(req)) => res.status = 500
    /\ res.status = 400 => MalformedCreate(req)
    /\ res.query = "failed" => res.status \notin {200, 201, 204}

\* C15: the rows of a pipeline's detail are sorted ascending by the status order,
\* are, one for one, the user_status rows whose status belongs to the pipeline,
\* and none is for a status without a user.
C15_DetailIsOrdered ==
    (res.by = "GetPipelineById" /\ res.status = 200) =>
        LET rows == res.body
            owned == {u \in db.user_status : PipelineOfRow(db, u) = ParseId(req.path[1])}
        IN /\ \A i, j \in DOMAIN rows : i < j => rows[i].order <= rows[j].order
           /\ Len(rows) = Cardinality(owned)
           /\ \E o \in Orderings(owned) :
                \A i \in DOMAIN rows :
                    /\ rows[i].user_id = o[i].user_id
                    /\ rows[i].pipeline_status_id = o[i].pipeline_status_id
                    /\ rows[i].order = StatusById(db, o[i].pipeline_status_id).order
           /\ \A i \in DOMAIN rows :
                \E u \in db.user_status : u.pipeline_status_id = rows[i].pipeline_status_id

\* Two users of the pipeline, and the one assigned first is in the later column.
C15_Witness ==
    /\ res.by = "GetPipelineById" /\ res.status = 200
    /\ Len(res.body) = 2
    /\ res.body[1].order < res.body[2].order
    /\ \E u1, u2 \in db.user_status :
            /\ u1.id < u2.id
            /\ u1.user_id = res.body[2].user_id /\ u2.user_id = res.body[1].user_id
            /\ u1.user_id # u2.user_id

---------------------------------------------------------------------------
\* Properties of get form with sections.

\* The document of a form lists the form's sections, and under each section its
\* questions that are not archived, one for one, and none that is archived
\* (before: the tables the request was answered from).
HidesArchived ==
    (res.by = "GetFormAll" /\ res.status = 200 /\ res.body # <<>>) =>
        LET doc == res.body
            secs == doc.sections.items
        IN /\ doc.id = ParseId(req.path[1])
           /\ {secs[i].id : i \in DOMAIN secs} = {x.id : x \in SectionsOfForm(before, doc.id)}
           /\ Len(secs) = Cardinality(SectionsOfForm(before, doc.id))
           /\ \A i \in DOMAIN secs :
                LET qs == secs[i].questions.items
                    live == {q \in before.question :
                                q.section_id = secs[i].id /\ ~q.archived}
                IN /\ \A k \in DOMAIN qs :
                        ~\E q \in before.question : q.archived /\ q.question = qs[k].question
                   /\ Len(qs) = Cardinality(live)
                   /\ {qs[k].question : k \in DOMAIN qs} = {q.question : q \in live}

\* Every stored question is still stored after a step, with nothing but its
\* archived flag changed.
KeepsQuestionRows ==
    \A q \in db.question :
        \E r \in db'.question : [r EXCEPT !.archived = q.archived] = q

\* C11: get form with sections returns no archived question and every
\* non-archived question of each section, and archiving a question (like every
\* other step) leaves its row in storage.
C11_ArchivedQuestionsHidden == []HidesArchived /\ [][KeepsQuestionRows]_vars

\* A section with an archived and a live question: the document has the live one
\* only, and the archived row is stored.
C11_Witness ==
    /\ res.by = "GetFormAll" /\ res.status = 200 /\ res.body # <<>>
    /\ \E i \in DOMAIN res.body.sections.items :
        LET x == res.body.sections.items[i]
        IN /\ Len(x.questions.items) = 1
           /\ \E q \in before.question : q.section_id = x.id /\ q.archived

---------------------------------------------------------------------------
\* Properties of credential hashing.

---------------------------------------------------------------------------
\* Properties of addPipeline.

\* C17: when the code after addPipeline's await has run (it has logged and the
\* call is complete): if the POST succeeded, the refresh it started has been
\* answered and has stored the server's list in pipelines; if the POST failed,
\* no fetchPipeline was called and pipelines is as it was.
C17_AddPipelineRefreshes ==
    (settled.call # 0 /\ calls[settled.call].fn = "addPipeline") =>
        IF AxiosResolves(calls[settled.call].response)
        THEN /\ Len(calls) = settled.calls + 1
             /\ calls[Len(calls)].fn = "fetchPipeline"
             /\ calls[Len(calls)].pc = "fulfilled"
             /\ AxiosResolves(calls[Len(calls)].response)
             /\ store.pipelines = ArrayOf(calls[Len(calls)].response.data)
        ELSE /\ Len(calls) = settled.calls
             /\ store.pipelines = settled.store.pipelines

---------------------------------------------------------------------------
\* Properties of the AddUserToPipeline component.

\* fetchPipelineById succeeded: selectedPipeline holds the rows the server sent.
Fetched(v) == v.type = "array"

\* C18: a click with a fetched pipeline and a selected user calls addUserStatus
\* exactly once, with {pipeline_id, user_id, pipeline_status_id}; a click with no
\* pipeline selected or no user selected does not call it.
C18_AddUserCallsAddUserStatus ==
    modal.last.step = "click" =>
        LET c == modal.last
        IN /\ (Fetched(c.selectedPipeline) /\ c.selectedUser # NoUser) =>
                c.addUserStatus =
                    <<NewUserStatus(c.pipelineId, c.selectedUser.id,
                                    c.initialPipelineStatusId)>>
           /\ (c.selectedPipeline = EmptyObject \/ c.selectedUser = NoUser) =>
                c.addUserStatus = <<>>

\* C19: a render with users found completes: it throws no TypeError, whatever
\* selectedPipeline holds.
C19_RenderNeverThrows ==
    (modal.last.step = "render" /\ Len(modal.last.foundUsers) > 0) =>
        modal.last.error = "none"

\* The ids of the users in the rows of a selected pipeline.
ApplicantIds(v) == {v.rows[i].user_id : i \in DOMAIN v.rows}

\* C20: a render with users found offers exactly the found users who are not in
\* the selected pipeline.
C20_OffersUsersNotInPipeline ==
    (modal.last.step = "render" /\ Len(modal.last.foundUsers) > 0) =>
        LET NotInPipeline(user) ==
                user.id \notin ApplicantIds(modal.last.selectedPipeline)
        IN /\ modal.last.error = "none"
           /\ modal.last.usersAvailableToAdd =
                SelectSeq(modal.last.foundUsers, NotInPipeline)

---------------------------------------------------------------------------
\* Properties of FormPage's redirect.

\* The sectionIndex FormPage is shown with.
SectionIndexNow == UseParams(formRoute.url).sectionIndex

\* The step stays at the visit it started in: no URL is opened in it.
SameVisit ==
    ~(formRoute.effect # "due" /\ formRoute'.effect = "due" /\ formRoute'.redirects = 0)

\* An absent or non-numeric sectionIndex is answered by a navigation to
\* /form/{formId}/0.
RedirectsToFirstSection ==
    (formRoute.effect = "due" /\ isNaN(SectionIndexNow) /\ SameVisit)
        => /\ formRoute'.url = <<"form", UseParams(formRoute.url).formId, <<"0">>>>
           /\ formRoute'.redirects = formRoute.redirects + 1

\* With a numeric sectionIndex no redirect is issued.
NumericIsNotRedirected ==
    (formRoute.effect # "none" /\ ~isNaN(SectionIndexNow) /\ SameVisit)
        => /\ formRoute'.url = formRoute.url
           /\ formRoute'.redirects = formRoute.redirects

\* From a starting URL at most one redirect happens, and it happens only from
\* an absent or non-numeric sectionIndex.
AtMostOneRedirect ==
    /\ formRoute.redirects <= 1
    /\ (formRoute.redirects = 1) => isNaN(UseParams(formRoute.start).sectionIndex)
    /\ (formRoute.effect = "ran") => ~isNaN(SectionIndexNow)

\* C21: an absent or non-numeric sectionIndex makes FormPage navigate to
\* /form/{formId}/0; with a numeric sectionIndex no redirect is issued; from any
\* starting URL at most one redirect happens, and the effect comes to rest.
C21_SectionRedirectTerminates ==
    /\ []AtMostOneRedirect
    /\ [][RedirectsToFirstSection /\ NumericIsNotRedirected]_vars
    /\ (formRoute.effect = "due") ~> (formRoute.effect = "ran")

\* C21: FormPage was opened at a URL whose sectionIndex is a text that is not a
\* number, has redirected once to the first section and is at rest there.
C21_Witness ==
    /\ Len(formRoute.start) = 3
    /\ isNaN(formRoute.start[3])
    /\ formRoute.redirects = 1
    /\ formRoute.effect = "ran"
    /\ formRoute.url = <<"form", formRoute.start[2], <<"0">>>>

====
